---- MODULE Spec2Model ----
(***************************************************************************)
(* Referral attribution and reward dispatch of the Wallswipe invite bot.   *)
(*                                                                         *)
(* The persisted collections (User, Reward, Referral) are the database     *)
(* state.  Every handler is an async function: it runs synchronously up to *)
(* each `await` of an external call (a database operation or a Telegram    *)
(* request), the external call takes effect atomically at some later       *)
(* moment, and other handlers may run in between.  One action of the model *)
(* is one such external call together with the synchronous code that       *)
(* follows it up to the next await.                                        *)
(*                                                                         *)
(* A handler works on a Mongoose document: an in-memory copy of the stored *)
(* profile.  document.save() writes the paths modified since the document  *)
(* was loaded or last saved: an assigned scalar path is written with $set, *)
(* elements pushed onto an array are appended with $push.                  *)
(***************************************************************************)
EXTENDS Integers, Sequences, FiniteSets

\* ------------------------------------------------------------------ bounds
NumUsers == 3          \* identities 1..NumUsers
MaxJoins == 2          \* join events accepted for processing in one run
MaxCalls == 3          \* user commands in one run
MaxLinks == 3          \* invitation handles Telegram issues in one run
MaxCredit == 10        \* the largest credit count /myinvites reports on
MaxStep == 5           \* the largest INVITES_PER_REWARD

UserIds == 1..NumUsers
\* Two handlers of each kind overlap: while one waits at an await, the other
\* may run; a handler that has ended takes the next event.
JoinHandlers == {"j1", "j2"}
LinkHandlers == {"l1", "l2"}

\* ------------------------------------------------------------ data model
\* inviteLink of a profile that has none yet (undefined), and the
\* invite_link of a join event that carries none.
NoLink == 0
\* The handles createChatInviteLink returns: the n-th request returns n.
\* A handle this bot never issued (the link of another admin of the channel).
ForeignLink == MaxLinks + 1
Usernames == {"ann", "bob"}

\* new User({userId, username}): the schema defaults.
NewUser(userId, username) ==
    [userId |-> userId, username |-> username, inviteLink |-> NoLink,
     invitedUsers |-> <<>>, invitesCount |-> 0, rewardsClaimed |-> <<>>]

\* No document loaded.
NoDoc == NewUser(0, "")

\* Nothing modified on a document.
Clean == [set |-> {}, pushInvited |-> <<>>, pushClaimed |-> <<>>]

\* Array.prototype.includes
Includes(seq, x) == \E i \in 1..Len(seq) : seq[i] = x

Range(seq) == {seq[i] : i \in 1..Len(seq)}

\* The variant of save that writes the whole in-memory document back.
SaveWholeDocument(stored, doc, dirty) == doc

\* document.save(): the update Mongoose sends for the modified paths,
\* applied to the stored profile.
Save(stored, doc, dirty) ==
    [stored EXCEPT
        !.username = IF "username" \in dirty.set THEN doc.username ELSE @,
        !.inviteLink = IF "inviteLink" \in dirty.set THEN doc.inviteLink ELSE @,
        !.invitesCount = IF "invitesCount" \in dirty.set THEN doc.invitesCount ELSE @,
        !.invitedUsers = @ \o dirty.pushInvited,
        !.rewardsClaimed = @ \o dirty.pushClaimed]

\* The orders in which a find() that asks for none may return the documents
\* of the given ids: the collection keeps its own (natural) order, which the
\* stored profiles here do not record.
Orders(ids) ==
    {list \in [1..Cardinality(ids) -> ids] :
        \A i \in DOMAIN list, j \in DOMAIN list : i # j => list[i] # list[j]}

\* ------------------------------------------------------------ reward catalog
TierIds == {"1", "2"}

\* Insert a reward into a list sorted by threshold, after the rewards of an
\* equal threshold.
RECURSIVE InsertByThreshold(_, _)
InsertByThreshold(r, sorted) ==
    IF sorted = <<>> THEN <<r>>
    ELSE IF r.threshold < Head(sorted).threshold THEN <<r>> \o sorted
    ELSE <<Head(sorted)>> \o InsertByThreshold(r, Tail(sorted))

\* Reward.find().sort({ threshold: 1 }) over the stored rewards.
RECURSIVE SortByThreshold(_)
SortByThreshold(stored) ==
    IF stored = <<>> THEN <<>>
    ELSE InsertByThreshold(stored[Len(stored)],
                           SortByThreshold(SubSeq(stored, 1, Len(stored) - 1)))

\* A reward is due when its threshold exceeds the count by less than one.
IsDueStrict(r, inviter) ==
    r.threshold < inviter.invitesCount
    /\ ~Includes(inviter.rewardsClaimed, r.rewardId)

\* The filter predicate of sendDueRewards.
IsDue(r, inviter) ==
    r.threshold <= inviter.invitesCount
    /\ ~Includes(inviter.rewardsClaimed, r.rewardId)

\* rewards.filter(...) of sendDueRewards, keeping the sorted order.
ToSend(sorted, inviter) == SelectSeq(sorted, LAMBDA r : IsDue(r, inviter))

\* ------------------------------------------------------------------- state
VARIABLES
    channel,      \* CHANNEL_ID / CHANNEL_CHAT_ID: the configured channel
    users,        \* the User collection: userId -> stored profile
    rewards,      \* the Reward collection, in insertion order
    referrals,    \* the Referral collection, in insertion order
    joins,        \* chat_member handlers: position and local variables
    links,        \* /start and /link handlers: position and local variables
    issued,       \* createChatInviteLink requests made: the inviter of each
    returned,     \* userId -> the handles getOrCreateInviteLinkForUser returned, in order
    notified,     \* userId -> "New member joined" messages delivered
    delivered,    \* userId -> rewardId -> reward documents delivered
    everFailed,   \* userId -> rewardIds whose delivery has failed
    lastOutcome,  \* the latest step: why it dropped its event, or "none"
    nJoins,       \* join events accepted so far
    nCalls,       \* commands and uploads taken for processing so far
    invitesPerReward,      \* INVITES_PER_REWARD
    pendingRewardUploads,  \* adminId -> { rewardId, threshold }
    admins,       \* admin command and upload handlers: position and locals
    replies       \* the messages the command handlers sent, in order

vars == <<channel, users, rewards, referrals, joins, links, issued, returned,
          notified, delivered, everFailed, lastOutcome, nJoins, nCalls,
          invitesPerReward, pendingRewardUploads, admins, replies>>

\* The configured step, the upload sessions and the admin handlers.
desk == <<invitesPerReward, pendingRewardUploads, admins>>

\* What is persisted or sent: everything but the handlers' own positions.
database == <<users, rewards, referrals>>
outbox == <<notified, delivered, everFailed, issued, returned, replies>>

\* upd.chat of no event.
NoChat == [id |-> 0, username |-> ""]

IdleJoin ==
    [pc |-> "idle", chat |-> NoChat, oldStatus |-> "", joined |-> 0,
     link |-> NoLink, inviter |-> NoDoc,
     dirty |-> Clean, toSend |-> <<>>, idx |-> 0, failed |-> {}, sent |-> {}]

IdleLink ==
    [pc |-> "idle", command |-> "link", userId |-> 0, username |-> "",
     user |-> NoDoc]

\* ------------------------------------------------------------ join events
\* The two forms of configuration: CHANNEL_ID = "@wallswipe" (kept as the
\* string) and CHANNEL_ID = "100" (normalizeChatId makes it the number).
Channels ==
    {[byName |-> TRUE, name |-> "wallswipe", id |-> 0],
     [byName |-> FALSE, name |-> "", id |-> 100]}

\* upd.chat of an event: the channel, another public chat, another chat with
\* no public name.
Chats ==
    {[id |-> 100, username |-> "wallswipe"],
     [id |-> 200, username |-> "other"], [id |-> 300, username |-> ""]}

Statuses == {"left", "kicked", "member", "administrator", "restricted"}

\* The statuses of an identity that is not in the channel.
Outside == {"left", "kicked"}

\* The channel check at the head of the chat_member handler: TRUE when the
\* event is processed further.
ChannelMatches(cfg, chat) ==
    IF cfg.byName
    THEN \* chatId !== '@' + username always holds (a number and a string);
         \* with no username the comparison is chatId !== chatId.
         IF chat.username # ""
         THEN chat.username = cfg.name
         ELSE TRUE
    ELSE chat.id = cfg.id

\* newStatus === 'member' && oldStatus !== 'member'
BecomesMember(oldStatus, newStatus) ==
    newStatus = "member" /\ oldStatus # "member"

\* A handler that takes every event to carry a handle.
AnyInviteLink(link) == TRUE

\* !usedInviteLink is false
HasInviteLink(link) == link # NoLink

\* A collection with no unique index: no insert is refused.
NeverDuplicate(stored, record) == FALSE

\* A unique index over the pair (joinedUserId, inviterUserId).
IsDuplicatePair(stored, record) ==
    \E i \in 1..Len(stored) : stored[i] = record

\* The unique index on Referral.joinedUserId: the insert of a record is
\* refused when a record of the same joined identity is stored.
IsDuplicateKey(stored, record) ==
    \E i \in 1..Len(stored) : stored[i].joinedUserId = record.joinedUserId

\* bot.on('chat_member'): an event arrives whose previous status is one of
\* `olds`, whose joined user is one of `joiners` and whose invite link, if
\* any, one of `handles`; the synchronous checks up to the lookup of the
\* inviter.  The event's fields are drawn as the handler reads them: the
\* chat, the two statuses, the invite link, the joined user.
Receive(h, olds, joiners, handles) ==
    /\ joins[h].pc = "idle"
    /\ UNCHANGED <<channel, desk, database, links, outbox, nCalls>>
    /\ \E chat \in Chats :
         IF ~ChannelMatches(channel, chat)
         THEN lastOutcome' = "otherChat" /\ UNCHANGED <<joins, nJoins>>
         ELSE \E oldStatus \in olds, newStatus \in Statuses :
           IF ~BecomesMember(oldStatus, newStatus)
           THEN lastOutcome' = "noJoin" /\ UNCHANGED <<joins, nJoins>>
           ELSE \E link \in {NoLink} \cup handles :
             IF ~HasInviteLink(link)
             THEN lastOutcome' = "noLink" /\ UNCHANGED <<joins, nJoins>>
             ELSE \E joined \in joiners :
                    /\ nJoins < MaxJoins
                    /\ nJoins' = nJoins + 1
                    /\ lastOutcome' = "none"
                    /\ joins' = [joins EXCEPT ![h] =
                           [IdleJoin EXCEPT !.pc = "findInviter",
                                            !.chat = chat,
                                            !.oldStatus = oldStatus,
                                            !.joined = joined, !.link = link]]

\* bot.on('chat_member') for an event of any user and any handle (one this
\* bot issued or a foreign one), of an identity that was outside the channel
\* or a member of it.
ChatMember(h) ==
    Receive(h, {"left", "member"}, UserIds,
            {ForeignLink} \cup (1..Len(issued)))

\* A handler with no self-invite guard.
NeverSelfInvite(inviter, joinedUserId) == FALSE

\* inviter.userId === joinedUserId
IsSelfInvite(inviter, joinedUserId) == inviter.userId = joinedUserId

\* User.findOne({ inviteLink }) resolves; the self-invite guard.
FindInviter(h) ==
    /\ joins[h].pc = "findInviter"
    /\ UNCHANGED <<channel, desk, database, links, outbox, nJoins, nCalls>>
    /\ LET owners == {u \in DOMAIN users : users[u].inviteLink = joins[h].link}
       IN IF owners = {}
          THEN lastOutcome' = "noInviter" /\ joins' = [joins EXCEPT ![h] = IdleJoin]
          ELSE \E u \in owners :
                 IF IsSelfInvite(users[u], joins[h].joined)
                 THEN /\ lastOutcome' = "selfInvite"
                      /\ joins' = [joins EXCEPT ![h] = IdleJoin]
                 ELSE /\ lastOutcome' = "none"
                      /\ joins' = [joins EXCEPT ![h].pc = "createReferral",
                                                ![h].inviter = users[u]]

\* The inviter document after the update that follows the insert, and the
\* paths it modified.
Credit(handler) ==
    LET j == handler.joined
        inv == handler.inviter
        pushed == ~Includes(inv.invitedUsers, j)
        invited == IF pushed THEN Append(inv.invitedUsers, j) ELSE inv.invitedUsers
    IN [handler EXCEPT
           !.pc = "saveInviter",
           !.inviter = [inv EXCEPT !.invitedUsers = invited,
                                   !.invitesCount = Len(invited)],
           !.dirty = [Clean EXCEPT
               !.pushInvited = IF pushed THEN <<j>> ELSE <<>>,
               !.set = IF Len(invited) # inv.invitesCount
                       THEN {"invitesCount"} ELSE {}]]

\* A catch that logs the failed insert and lets the handler go on.
GoOnAfterInsertFailed(handler) == Credit(handler)

\* catch (e) { return; } around Referral.create
OnInsertFailed(handler) == IdleJoin

\* Referral.create resolves or rejects; on success the local update of the
\* inviter document up to inviter.save().
CreateReferral(h) ==
    /\ joins[h].pc = "createReferral"
    /\ UNCHANGED <<channel, desk, users, rewards, links, outbox, nJoins, nCalls>>
    /\ LET record == [joinedUserId |-> joins[h].joined,
                      inviterUserId |-> joins[h].inviter.userId]
       IN \/ /\ ~IsDuplicateKey(referrals, record)
             /\ referrals' = Append(referrals, record)
             /\ lastOutcome' = "none"
             /\ joins' = [joins EXCEPT ![h] = Credit(@)]
          \/ /\ IsDuplicateKey(referrals, record)
             /\ lastOutcome' = "duplicate"
             /\ joins' = [joins EXCEPT ![h] = IdleJoin]
             /\ UNCHANGED referrals
          \/ \* the insert fails for another reason (the database is unreachable)
             /\ lastOutcome' = "insertFailed"
             /\ joins' = [joins EXCEPT ![h] = OnInsertFailed(@)]
             /\ UNCHANGED referrals

\* inviter.save() of the chat_member handler takes effect.
SaveInviter(h) ==
    /\ joins[h].pc = "saveInviter"
    /\ UNCHANGED <<channel, desk, rewards, referrals, links, outbox, nJoins, nCalls>>
    /\ lastOutcome' = "none"
    /\ LET u == joins[h].inviter.userId
       IN users' = [users EXCEPT ![u] = Save(@, joins[h].inviter, joins[h].dirty)]
    /\ joins' = [joins EXCEPT ![h].pc = "notify", ![h].dirty = Clean]

\* sendMessage to the inviter succeeds (sendDueRewards starts with its
\* Reward.find) or fails (the catch around both ends the handler).
NotifyInviter(h) ==
    /\ joins[h].pc = "notify"
    /\ UNCHANGED <<channel, desk, database, links, delivered, everFailed, issued,
                   returned, replies, nJoins, nCalls>>
    /\ \/ /\ notified' = [notified EXCEPT ![joins[h].inviter.userId] = @ + 1]
          /\ lastOutcome' = "none"
          /\ joins' = [joins EXCEPT ![h].pc = "findRewards"]
       \/ /\ lastOutcome' = "notifyFailed"
          /\ joins' = [joins EXCEPT ![h] = IdleJoin]
          /\ UNCHANGED notified

\* sendDueRewards: Reward.find().sort() resolves; toSend is computed.
FindRewards(h) ==
    /\ joins[h].pc = "findRewards"
    /\ UNCHANGED <<channel, desk, database, links, outbox, nJoins, nCalls>>
    /\ lastOutcome' = "none"
    /\ LET sorted == SortByThreshold(rewards)
           toSend == ToSend(sorted, joins[h].inviter)
       IN IF Len(sorted) = 0 \/ Len(toSend) = 0
          THEN joins' = [joins EXCEPT ![h] = IdleJoin]
          ELSE joins' = [joins EXCEPT ![h].pc = "sendReward",
                                         ![h].toSend = toSend, ![h].idx = 1]

\* Where the loop of sendDueRewards goes after the reward at idx.
AfterReward(handler) ==
    IF handler.idx < Len(handler.toSend) THEN "sendReward" ELSE "saveClaimed"

\* sendDocument resolved: the reward id is pushed onto rewardsClaimed.
OnDelivered(handler, r) ==
    [handler EXCEPT
        !.inviter.rewardsClaimed = Append(@, r.rewardId),
        !.dirty.pushClaimed = Append(@, r.rewardId),
        !.sent = @ \cup {r.rewardId},
        !.idx = @ + 1, !.pc = AfterReward(handler)]

\* A loop whose first failed delivery ends it.
BreakOnFailure(handler, r) ==
    [handler EXCEPT !.failed = @ \cup {r.rewardId}, !.pc = "saveClaimed"]

\* sendDocument rejected: the catch logs it and the loop goes on.
OnFailed(handler, r) ==
    [handler EXCEPT !.failed = @ \cup {r.rewardId},
                    !.idx = @ + 1, !.pc = AfterReward(handler)]

\* sendDueRewards: one sendDocument of the loop succeeds or fails.
SendReward(h) ==
    /\ joins[h].pc = "sendReward"
    /\ UNCHANGED <<channel, desk, database, links, notified, issued, returned,
                   replies, nJoins, nCalls>>
    /\ lastOutcome' = "none"
    /\ LET r == joins[h].toSend[joins[h].idx]
           u == joins[h].inviter.userId
       IN \/ /\ delivered' = [delivered EXCEPT ![u][r.rewardId] = @ + 1]
             /\ UNCHANGED everFailed
             /\ joins' = [joins EXCEPT ![h] = OnDelivered(@, r)]
          \/ /\ everFailed' = [everFailed EXCEPT ![u] = @ \cup {r.rewardId}]
             /\ UNCHANGED delivered
             /\ joins' = [joins EXCEPT ![h] = OnFailed(@, r)]

\* sendDueRewards: the closing inviter.save() takes effect.
SaveClaimed(h) ==
    /\ joins[h].pc = "saveClaimed"
    /\ UNCHANGED <<channel, desk, rewards, referrals, links, outbox, nJoins, nCalls>>
    /\ lastOutcome' = "none"
    /\ LET u == joins[h].inviter.userId
       IN users' = [users EXCEPT ![u] = Save(@, joins[h].inviter, joins[h].dirty)]
    /\ joins' = [joins EXCEPT ![h] = IdleJoin]

\* ------------------------------------------------------- /start and /link
\* A registry that takes no profile to have a handle yet.
NeverHasLink(user) == FALSE

\* if (user.inviteLink) of getOrCreateInviteLinkForUser
HasLink(user) == user.inviteLink # NoLink

\* ensureUser has returned `user`; getOrCreateInviteLinkForUser runs up to
\* its first await: a profile with a handle returns it (and the command
\* replies with it), otherwise createChatInviteLink is requested.
EnterGetOrCreate(h, user) ==
    /\ UNCHANGED replies
    /\ IF HasLink(user)
       THEN /\ returned' = [returned EXCEPT ![user.userId] = Append(@, user.inviteLink)]
            /\ links' = [links EXCEPT ![h] = IdleLink]
       ELSE /\ links' = [links EXCEPT ![h].pc = "createInviteLink", ![h].user = user]
            /\ UNCHANGED returned

\* Math.ceil(a / b) for b > 0.
Ceil(a, b) == -((-a) \div b)

\* A progress line that takes the next reward to be at the next multiple of
\* the step at or above the count.
ProgressTextAtOrAbove(invites, step) ==
    [invites |-> invites, next |-> Ceil(invites, step) * step,
     left |-> step - (invites % step)]

\* progressText: the numbers it prints.
ProgressText(invites, step) ==
    [invites |-> invites, next |-> Ceil(invites + 1, step) * step,
     left |-> step - (invites % step)]

\* A message sent by a command handler: ctx.reply goes to the sender's chat.
Reply(to, text, data) == [to |-> to, text |-> text, data |-> data]

\* bot.command('myinvites') after ensureUser: the reply with the progress.
ReplyMyInvites(h, user) ==
    /\ replies' = Append(replies,
           Reply(links[h].userId, "myinvites",
                 ProgressText(user.invitesCount, invitesPerReward)))
    /\ links' = [links EXCEPT ![h] = IdleLink]
    /\ UNCHANGED returned

\* bot.command('rewards') after ensureUser: the reply with the claimed
\* rewards, or that there is none yet.
ReplyRewards(h, user) ==
    /\ replies' = Append(replies,
           IF Len(user.rewardsClaimed) = 0
           THEN Reply(links[h].userId, "noRewardsYet", [command |-> "rewards"])
           ELSE Reply(links[h].userId, "unlocked", user.rewardsClaimed))
    /\ links' = [links EXCEPT ![h] = IdleLink]
    /\ UNCHANGED returned

\* ensureUser has returned `user` to the command that called it.
AfterEnsureUser(h, user) ==
    IF links[h].command = "myinvites" THEN ReplyMyInvites(h, user)
    ELSE IF links[h].command = "rewards" THEN ReplyRewards(h, user)
    ELSE EnterGetOrCreate(h, user)

\* bot.start / bot.command('link'): the command arrives from ctx.from.
LinkCommand(h, userId, username) ==
    /\ links[h].pc = "idle"
    /\ nCalls < MaxCalls
    /\ nCalls' = nCalls + 1
    /\ links' = [links EXCEPT ![h] =
           [IdleLink EXCEPT !.pc = "findUser", !.userId = userId,
                            !.username = username]]
    /\ UNCHANGED <<channel, desk, database, joins, outbox, nJoins>>
    /\ lastOutcome' = "none"

\* bot.command('myinvites'): the command arrives from ctx.from.
MyInvitesCommand(h, userId, username) ==
    /\ links[h].pc = "idle"
    /\ nCalls < MaxCalls
    /\ nCalls' = nCalls + 1
    /\ links' = [links EXCEPT ![h] =
           [IdleLink EXCEPT !.pc = "findUser", !.command = "myinvites",
                            !.userId = userId, !.username = username]]
    /\ UNCHANGED <<channel, desk, database, joins, outbox, nJoins>>
    /\ lastOutcome' = "none"

\* bot.command('rewards'): the command arrives from ctx.from.
RewardsCommand(h, userId, username) ==
    /\ links[h].pc = "idle"
    /\ nCalls < MaxCalls
    /\ nCalls' = nCalls + 1
    /\ links' = [links EXCEPT ![h] =
           [IdleLink EXCEPT !.pc = "findUser", !.command = "rewards",
                            !.userId = userId, !.username = username]]
    /\ UNCHANGED <<channel, desk, database, joins, outbox, nJoins>>
    /\ lastOutcome' = "none"

\* LEADERBOARD_SIZE when the environment does not set it.
LeaderboardSize == 10

\* bot.command('top'): the command arrives from ctx.from.
TopCommand(h, userId) ==
    /\ links[h].pc = "idle"
    /\ nCalls < MaxCalls
    /\ nCalls' = nCalls + 1
    /\ links' = [links EXCEPT ![h] =
           [IdleLink EXCEPT !.pc = "findTop", !.command = "top",
                            !.userId = userId]]
    /\ UNCHANGED <<channel, desk, database, joins, outbox, nJoins>>
    /\ lastOutcome' = "none"

\* The results User.find().sort({ invitesCount: -1 }) may give: the profiles
\* by descending count, those of an equal count in any order.
ByInvitesCount ==
    {list \in Orders(DOMAIN users) :
        \A i \in DOMAIN list, j \in DOMAIN list :
            i < j => users[list[i]].invitesCount >= users[list[j]].invitesCount}

\* A line of the leaderboard: the name if the profile has one, else the id,
\* and the count.
TopLine(user) ==
    [named |-> user.username # "", username |-> user.username,
     userId |-> user.userId, invites |-> user.invitesCount]

\* bot.command('top'): User.find().sort().limit() resolves; the reply.
FindTop(h) ==
    /\ links[h].pc = "findTop"
    /\ UNCHANGED <<channel, desk, database, joins, notified, delivered,
                   everFailed, issued, returned, nJoins, nCalls>>
    /\ lastOutcome' = "none"
    /\ links' = [links EXCEPT ![h] = IdleLink]
    /\ \E list \in ByInvitesCount :
         LET top == SubSeq(list, 1, IF Len(list) < LeaderboardSize
                                    THEN Len(list) ELSE LeaderboardSize)
         IN replies' = Append(replies,
                IF Len(top) = 0
                THEN Reply(links[h].userId, "noData", [command |-> "top"])
                ELSE Reply(links[h].userId, "top",
                           [i \in 1..Len(top) |-> TopLine(users[top[i]])]))

\* bot.command('help'): the reply, with no await before it.
HelpCommand(userId) ==
    /\ nCalls < MaxCalls
    /\ nCalls' = nCalls + 1
    /\ replies' = Append(replies, Reply(userId, "help", [command |-> "help"]))
    /\ UNCHANGED <<channel, desk, database, joins, links, notified, delivered,
                   everFailed, issued, returned, nJoins>>
    /\ lastOutcome' = "none"

\* ensureUser: User.findOne({ userId }) resolves.
EnsureUserFind(h) ==
    /\ links[h].pc = "findUser"
    /\ UNCHANGED <<channel, desk, database, joins, notified, delivered, everFailed,
                   issued, nJoins, nCalls>>
    /\ lastOutcome' = "none"
    /\ LET id == links[h].userId
       IN IF id \notin DOMAIN users
          THEN /\ links' = [links EXCEPT ![h].pc = "createUser"]
               /\ UNCHANGED <<returned, replies>>
          ELSE IF users[id].username # links[h].username
          THEN /\ links' = [links EXCEPT
                      ![h].pc = "saveUsername",
                      ![h].user = [users[id] EXCEPT !.username = links[h].username]]
               /\ UNCHANGED <<returned, replies>>
          ELSE AfterEnsureUser(h, users[id])

\* ensureUser: User.create resolves, or is refused by the unique index on
\* userId (the handler ends with the error).
EnsureUserCreate(h) ==
    /\ links[h].pc = "createUser"
    /\ UNCHANGED <<channel, desk, rewards, referrals, joins, notified, delivered,
                   everFailed, issued, nJoins, nCalls>>
    /\ lastOutcome' = "none"
    /\ LET id == links[h].userId
           user == NewUser(id, links[h].username)
       IN IF id \in DOMAIN users
          THEN /\ links' = [links EXCEPT ![h] = IdleLink]
               /\ UNCHANGED <<users, returned, replies>>
          ELSE /\ users' = [u \in DOMAIN users \cup {id} |->
                               IF u = id THEN user ELSE users[u]]
               /\ AfterEnsureUser(h, user)

\* ensureUser: user.save() of the changed username takes effect.
EnsureUserSave(h) ==
    /\ links[h].pc = "saveUsername"
    /\ UNCHANGED <<channel, desk, rewards, referrals, joins, notified, delivered,
                   everFailed, issued, nJoins, nCalls>>
    /\ lastOutcome' = "none"
    /\ users' = [users EXCEPT ![links[h].userId] =
                    Save(@, links[h].user, [Clean EXCEPT !.set = {"username"}])]
    /\ AfterEnsureUser(h, links[h].user)

\* createChatInviteLink answers with a new handle, or is refused (the bot
\* lacks the right; the handler ends with the error).
CreateChatInviteLink(h) ==
    /\ links[h].pc = "createInviteLink"
    /\ UNCHANGED <<channel, desk, database, joins, notified, delivered, everFailed,
                   returned, replies, nJoins, nCalls>>
    /\ lastOutcome' = "none"
    /\ \/ /\ Len(issued) < MaxLinks
          /\ issued' = Append(issued, links[h].user.userId)
          /\ links' = [links EXCEPT ![h].pc = "saveLink",
                                    ![h].user.inviteLink = Len(issued) + 1]
       \/ /\ links' = [links EXCEPT ![h] = IdleLink]
          /\ UNCHANGED issued

\* getOrCreateInviteLinkForUser: user.save() of the handle takes effect and
\* the handle is returned.
SaveLink(h) ==
    /\ links[h].pc = "saveLink"
    /\ UNCHANGED <<channel, desk, rewards, referrals, joins, notified, delivered,
                   everFailed, issued, replies, nJoins, nCalls>>
    /\ lastOutcome' = "none"
    /\ LET user == links[h].user
       IN /\ users' = [users EXCEPT ![user.userId] =
                          Save(@, user, [Clean EXCEPT !.set = {"inviteLink"}])]
          /\ returned' = [returned EXCEPT ![user.userId] = Append(@, user.inviteLink)]
    /\ links' = [links EXCEPT ![h] = IdleLink]

\* ---------------------------------------------------------- admin commands
\* Two admin handlers overlap, as the join handlers do.
AdminHandlers == {"a1", "a2"}

\* ADMIN_ID
AdminId == 1
\* INVITES_PER_REWARD when the environment does not set it.
DefaultStep == 5

\* ctx.from of an update that has none (a channel post).
NoSender == 0
\* The senders of commands and uploads: the admin, another user, nobody.
Senders == {NoSender, AdminId, 2}

\* pendingRewardUploads.get() of an admin with no session.
NoPending == [rewardId |-> "", threshold |-> 0]

\* The locals of a handler that is not running.
IdleAdmin ==
    [pc |-> "idle", from |-> NoSender, query |-> <<"", "">>, msg |-> "",
     pending |-> NoPending, fileId |-> "", list |-> <<>>, idx |-> 0,
     ok |-> 0, fail |-> 0, totalUsers |-> 0, totalReferrals |-> 0]

\* A check that lets every sender through.
AnyoneIsAdmin(from) == TRUE

\* isAdmin: ctx.from && ctx.from.id === ADMIN_ID
IsAdmin(from) == from # NoSender /\ from = AdminId

\* What no admin handler writes.
elsewhere ==
    <<channel, invitesPerReward, users, referrals, joins, links, notified,
      delivered, everFailed, issued, returned, nJoins>>

\* if (!isAdmin(ctx)) return;
Ignored ==
    /\ lastOutcome' = "notAdmin"
    /\ UNCHANGED <<rewards, pendingRewardUploads, admins, replies, nCalls>>

\* The handler takes the update and goes on to its first await.
Accept(h, handler) ==
    /\ nCalls < MaxCalls
    /\ nCalls' = nCalls + 1
    /\ admins' = [admins EXCEPT ![h] = handler]

\* ctx.reply(...) as the last statement of a handler.
Answer(h, text, data) ==
    /\ replies' = Append(replies, Reply(admins[h].from, text, data))
    /\ admins' = [admins EXCEPT ![h] = IdleAdmin]

\* The same for a handler that replies before its first await.
AnswerAtOnce(h, from, text, data) ==
    /\ nCalls < MaxCalls
    /\ nCalls' = nCalls + 1
    /\ replies' = Append(replies, Reply(from, text, data))
    /\ UNCHANGED admins

\* Number(text) of the texts the commands are given here; a text outside
\* NumericTexts gives NaN.
NumericTexts == {"-1", "0", "1", "2", "3"}
NumberOf(text) ==
    CASE text = "-1" -> -1
      [] text = "0" -> 0
      [] text = "1" -> 1
      [] text = "2" -> 2
      [] text = "3" -> 3

\* bot.command('stats'): the command arrives.
StatsCommand(h, from) ==
    /\ admins[h].pc = "idle"
    /\ UNCHANGED elsewhere
    /\ IF ~IsAdmin(from)
       THEN Ignored
       ELSE /\ Accept(h, [IdleAdmin EXCEPT !.pc = "countUsers", !.from = from])
            /\ lastOutcome' = "none"
            /\ UNCHANGED <<rewards, pendingRewardUploads, replies>>

\* User.countDocuments() resolves.
CountUsers(h) ==
    /\ admins[h].pc = "countUsers"
    /\ UNCHANGED <<elsewhere, rewards, pendingRewardUploads, replies, nCalls>>
    /\ lastOutcome' = "none"
    /\ admins' = [admins EXCEPT ![h].pc = "countReferrals",
                                ![h].totalUsers = Cardinality(DOMAIN users)]

\* Referral.countDocuments() resolves.
CountReferrals(h) ==
    /\ admins[h].pc = "countReferrals"
    /\ UNCHANGED <<elsewhere, rewards, pendingRewardUploads, replies, nCalls>>
    /\ lastOutcome' = "none"
    /\ admins' = [admins EXCEPT ![h].pc = "countActive",
                                ![h].totalReferrals = Len(referrals)]

\* User.countDocuments({ invitesCount: { $gt: 0 } }) resolves; the reply.
CountActive(h) ==
    /\ admins[h].pc = "countActive"
    /\ UNCHANGED <<elsewhere, rewards, pendingRewardUploads, nCalls>>
    /\ lastOutcome' = "none"
    /\ Answer(h, "stats",
              [users |-> admins[h].totalUsers,
               referrals |-> admins[h].totalReferrals,
               active |-> Cardinality({u \in DOMAIN users :
                                         users[u].invitesCount > 0})])

\* The argument of /user as the handler splits it: whether it starts with
\* '@', and the rest of it.  No argument, a name, an unknown name, an id, an
\* id of nobody.
UserArgs == {<<"", "">>, <<"@", "ann">>, <<"@", "zed">>, <<"", "1">>, <<"", "3">>}

\* bot.command('user'): the command arrives with an argument of `args`.
UserCommand(h, from, args) ==
    /\ admins[h].pc = "idle"
    /\ UNCHANGED <<elsewhere, rewards, pendingRewardUploads>>
    /\ IF ~IsAdmin(from)
       THEN Ignored
       ELSE \E arg \in args :
              IF arg = <<"", "">>
              THEN /\ AnswerAtOnce(h, from, "usage", [command |-> "user"])
                   /\ lastOutcome' = "usage"
              ELSE /\ Accept(h, [IdleAdmin EXCEPT !.pc = "findOne",
                                                  !.from = from, !.query = arg])
                   /\ lastOutcome' = "none"
                   /\ UNCHANGED replies

\* The profiles a query of /user matches.
Matches(query) ==
    IF query[1] = "@"
    THEN {u \in DOMAIN users : users[u].username = query[2]}
    ELSE {u \in DOMAIN users : users[u].userId = NumberOf(query[2])}

\* What /user reports of a profile.
UserInfo(user) ==
    [userId |-> user.userId, invites |-> user.invitesCount,
     claimed |-> user.rewardsClaimed, inviteLink |-> user.inviteLink,
     invited |-> Len(user.invitedUsers)]

\* User.findOne(query) resolves; the reply.
FindOne(h) ==
    /\ admins[h].pc = "findOne"
    /\ UNCHANGED <<elsewhere, rewards, pendingRewardUploads, nCalls>>
    /\ lastOutcome' = "none"
    /\ IF Matches(admins[h].query) = {}
       THEN Answer(h, "notFound", [command |-> "user"])
       ELSE \E u \in Matches(admins[h].query) :
               Answer(h, "user", UserInfo(users[u]))

\* bot.command('broadcast'): the command arrives with a message of `msgs`.
BroadcastCommand(h, from, msgs) ==
    /\ admins[h].pc = "idle"
    /\ UNCHANGED <<elsewhere, rewards, pendingRewardUploads>>
    /\ IF ~IsAdmin(from)
       THEN Ignored
       ELSE \E msg \in msgs :
              IF msg = ""
              THEN /\ AnswerAtOnce(h, from, "usage", [command |-> "broadcast"])
                   /\ lastOutcome' = "usage"
              ELSE /\ Accept(h, [IdleAdmin EXCEPT !.pc = "findUsers",
                                                  !.from = from, !.msg = msg])
                   /\ lastOutcome' = "none"
                   /\ UNCHANGED replies

\* The tally reply that ends a broadcast.
BroadcastDone(h, ok, fail) == Answer(h, "broadcastDone", [ok |-> ok, fail |-> fail])

\* User.find({}, { userId: 1 }) resolves; with no user the tally follows.
FindUsers(h) ==
    /\ admins[h].pc = "findUsers"
    /\ UNCHANGED <<elsewhere, rewards, pendingRewardUploads, nCalls>>
    /\ lastOutcome' = "none"
    /\ IF DOMAIN users = {}
       THEN BroadcastDone(h, 0, 0)
       ELSE \E list \in Orders(DOMAIN users) :
            /\ admins' = [admins EXCEPT ![h].pc = "sendMessage",
                                        ![h].list = list, ![h].idx = 1]
            /\ UNCHANGED replies

\* One sendMessage of the broadcast loop succeeds or fails; after the last
\* one, the tally.
SendMessage(h) ==
    /\ admins[h].pc = "sendMessage"
    /\ UNCHANGED <<elsewhere, rewards, pendingRewardUploads, nCalls>>
    /\ lastOutcome' = "none"
    /\ LET me == admins[h]
           last == me.idx = Len(me.list)
           message == Reply(me.list[me.idx], "broadcast", [msg |-> me.msg])
       IN \/ IF last
             THEN /\ replies' = replies \o
                        <<message, Reply(me.from, "broadcastDone",
                                         [ok |-> me.ok + 1, fail |-> me.fail])>>
                  /\ admins' = [admins EXCEPT ![h] = IdleAdmin]
             ELSE /\ replies' = Append(replies, message)
                  /\ admins' = [admins EXCEPT ![h].ok = @ + 1, ![h].idx = @ + 1]
          \/ IF last
             THEN BroadcastDone(h, me.ok, me.fail + 1)
             ELSE /\ admins' = [admins EXCEPT ![h].fail = @ + 1, ![h].idx = @ + 1]
                  /\ UNCHANGED replies

\* bot.command('rewardslist'): the command arrives.
RewardsListCommand(h, from) ==
    /\ admins[h].pc = "idle"
    /\ UNCHANGED elsewhere
    /\ IF ~IsAdmin(from)
       THEN Ignored
       ELSE /\ Accept(h, [IdleAdmin EXCEPT !.pc = "listRewards", !.from = from])
            /\ lastOutcome' = "none"
            /\ UNCHANGED <<rewards, pendingRewardUploads, replies>>

\* Reward.find().sort({ threshold: 1 }) resolves; the reply.
ListRewards(h) ==
    /\ admins[h].pc = "listRewards"
    /\ UNCHANGED <<elsewhere, rewards, pendingRewardUploads, nCalls>>
    /\ lastOutcome' = "none"
    /\ LET sorted == SortByThreshold(rewards)
       IN IF Len(sorted) = 0
          THEN Answer(h, "noRewards", [command |-> "rewardslist"])
          ELSE Answer(h, "rewards",
                      [i \in 1..Len(sorted) |->
                          <<sorted[i].rewardId, sorted[i].threshold>>])

\* Map.prototype.set
MapSet(map, key, value) ==
    [k \in DOMAIN map \cup {key} |-> IF k = key THEN value ELSE map[k]]

\* Map.prototype.delete
MapDelete(map, key) == [k \in DOMAIN map \ {key} |-> map[k]]

\* The threshold /reward gives a reward when the command names none (or names
\* one that is not a number): the id times the step if the id is a number,
\* else the step.
DefaultThreshold(rewardId, step) ==
    IF rewardId \in NumericTexts THEN NumberOf(rewardId) * step ELSE step

\* let threshold = Number(parts[2]); if (isNaN(threshold)) { ... }
\* parts is the command text split at white space, the command itself first.
ThresholdOf(parts, step) ==
    IF Len(parts) >= 3 /\ parts[3] \in NumericTexts
    THEN NumberOf(parts[3])
    ELSE DefaultThreshold(parts[2], step)

\* bot.command('reward'): the command arrives with a text of `texts`; the
\* session is opened and the ZIP asked for.
RewardCommand(h, from, texts) ==
    /\ admins[h].pc = "idle"
    /\ UNCHANGED <<elsewhere, rewards>>
    /\ IF ~IsAdmin(from)
       THEN Ignored
       ELSE \E parts \in texts :
              IF Len(parts) < 2
              THEN /\ AnswerAtOnce(h, from, "usage", [command |-> "reward"])
                   /\ lastOutcome' = "usage"
                   /\ UNCHANGED pendingRewardUploads
              ELSE LET pending ==
                           [rewardId |-> parts[2],
                            threshold |-> ThresholdOf(parts, invitesPerReward)]
                   IN /\ pendingRewardUploads' =
                            MapSet(pendingRewardUploads, from, pending)
                      /\ AnswerAtOnce(h, from, "sendZip", pending)
                      /\ lastOutcome' = "none"

\* doc.mime_type.includes('zip') and doc.file_name.toLowerCase()
\* .endsWith('.zip') of the types and names the uploads carry here.
ZipTypes == {"application/zip"}
ZipNames == {"pack.zip", "PACK.ZIP"}

\* const isZip = ...
IsZip(doc) ==
    \/ doc.mime_type # "" /\ doc.mime_type \in ZipTypes
    \/ doc.file_name # "" /\ doc.file_name \in ZipNames

\* bot.on('document'): an upload of `docs` arrives; the checks up to
\* Reward.findOneAndUpdate.
DocumentUpload(h, from, docs) ==
    /\ admins[h].pc = "idle"
    /\ UNCHANGED <<elsewhere, rewards, pendingRewardUploads>>
    /\ IF ~IsAdmin(from)
       THEN Ignored
       ELSE IF from \notin DOMAIN pendingRewardUploads
       THEN /\ lastOutcome' = "noPending"
            /\ UNCHANGED <<admins, replies, nCalls>>
       ELSE \E doc \in docs :
              IF ~IsZip(doc)
              THEN /\ AnswerAtOnce(h, from, "sendZipPlease", [command |-> "document"])
                   /\ lastOutcome' = "notZip"
              ELSE /\ Accept(h, [IdleAdmin EXCEPT
                                    !.pc = "upsert", !.from = from,
                                    !.pending = pendingRewardUploads[from],
                                    !.fileId = doc.file_id])
                   /\ lastOutcome' = "none"
                   /\ UNCHANGED replies

\* Reward.findOneAndUpdate({ rewardId }, ..., { upsert: true }): the reward
\* of that id is replaced where it stands, or the reward is inserted.
Upsert(stored, tier) ==
    IF \E i \in 1..Len(stored) : stored[i].rewardId = tier.rewardId
    THEN [i \in 1..Len(stored) |->
             IF stored[i].rewardId = tier.rewardId THEN tier ELSE stored[i]]
    ELSE Append(stored, tier)

\* Reward.findOneAndUpdate resolves; the session is closed and the admin told.
UpsertReward(h) ==
    /\ admins[h].pc = "upsert"
    /\ UNCHANGED <<elsewhere, nCalls>>
    /\ lastOutcome' = "none"
    /\ LET me == admins[h]
       IN /\ rewards' = Upsert(rewards, [rewardId |-> me.pending.rewardId,
                                         fileId |-> me.fileId,
                                         threshold |-> me.pending.threshold])
          /\ pendingRewardUploads' = MapDelete(pendingRewardUploads, me.from)
          /\ Answer(h, "saved", me.pending)

\* ------------------------------------------------------------ specifications
\* The stored profile of an inviter after a first /start: the handle issued.
Profile(userId) == [NewUser(userId, "ann") EXCEPT !.inviteLink = userId]

\* A stored reward.
Tier(rewardId, threshold) ==
    [rewardId |-> rewardId, fileId |-> "zip", threshold |-> threshold]

\* The catalog after the admin registered reward 2 at 2 invites, then
\* reward 1 at 1 invite.
Catalog == <<Tier("2", 2), Tier("1", 1)>>

\* INVITES_PER_REWARD at its default; no upload session, no admin handler
\* in flight, nothing replied yet.
NoCommands ==
    /\ invitesPerReward = DefaultStep
    /\ pendingRewardUploads = <<>>
    /\ admins = [h \in AdminHandlers |-> IdleAdmin]
    /\ replies = <<>>

NoHistory ==
    /\ notified = [u \in UserIds |-> 0]
    /\ delivered = [u \in UserIds |-> [t \in TierIds |-> 0]]
    /\ everFailed = [u \in UserIds |-> {}]
    /\ lastOutcome = "none"
    /\ nJoins = 0
    /\ nCalls = 0
    /\ joins = [h \in JoinHandlers |-> IdleJoin]
    /\ links = [h \in LinkHandlers |-> IdleLink]
    /\ NoCommands

\* The channel is configured by its numeric id; identities 1 and 2 have run
\* /start and hold handles 1 and 2; nobody has joined yet.
Init ==
    /\ channel \in {c \in Channels : ~c.byName}
    /\ users = [u \in 1..2 |-> Profile(u)]
    /\ rewards = Catalog
    /\ referrals = <<>>
    /\ issued = <<1, 2>>
    /\ returned = [u \in UserIds |-> IF u \in 1..2 THEN <<u>> ELSE <<>>]
    /\ NoHistory

JoinNext ==
    \E h \in JoinHandlers :
        \/ ChatMember(h)
        \/ FindInviter(h)
        \/ CreateReferral(h)
        \/ SaveInviter(h)
        \/ NotifyInviter(h)
        \/ FindRewards(h)
        \/ SendReward(h)
        \/ SaveClaimed(h)

LinkNext ==
    \E h \in LinkHandlers :
        \/ \E u \in UserIds, name \in Usernames : LinkCommand(h, u, name)
        \/ EnsureUserFind(h)
        \/ EnsureUserCreate(h)
        \/ EnsureUserSave(h)
        \/ CreateChatInviteLink(h)
        \/ SaveLink(h)

Next == JoinNext

Spec == Init /\ [][Next]_vars

\* The bot starts with an empty database; only /start and /link arrive.
InitEmpty ==
    /\ channel \in {c \in Channels : ~c.byName}
    /\ users = <<>>
    /\ rewards = <<>>
    /\ referrals = <<>>
    /\ issued = <<>>
    /\ returned = [u \in UserIds |-> <<>>]
    /\ NoHistory

SpecLink == InitEmpty /\ [][LinkNext]_vars

\* The same join event delivered again and again: identity NumUsers joins
\* through the handle of inviter 1.  Inviter 1 is new, or was credited with
\* identity 2 before (notified, reward 1 delivered and claimed).
InitDup ==
    \/ Init
    \/ /\ channel \in {c \in Channels : ~c.byName}
       /\ users = [u \in 1..2 |->
                      IF u = 1
                      THEN [Profile(1) EXCEPT !.invitedUsers = <<2>>,
                                              !.invitesCount = 1,
                                              !.rewardsClaimed = <<"1">>]
                      ELSE Profile(u)]
       /\ rewards = Catalog
       /\ referrals = <<[joinedUserId |-> 2, inviterUserId |-> 1]>>
       /\ issued = <<1, 2>>
       /\ returned = [u \in UserIds |-> IF u \in 1..2 THEN <<u>> ELSE <<>>]
       /\ notified = [u \in UserIds |-> IF u = 1 THEN 1 ELSE 0]
       /\ delivered = [u \in UserIds |->
                          [t \in TierIds |-> IF u = 1 /\ t = "1" THEN 1 ELSE 0]]
       /\ everFailed = [u \in UserIds |-> {}]
       /\ lastOutcome = "none"
       /\ nJoins = 0
       /\ nCalls = 0
       /\ joins = [h \in JoinHandlers |-> IdleJoin]
       /\ links = [h \in LinkHandlers |-> IdleLink]
       /\ NoCommands

DupNext ==
    \E h \in JoinHandlers :
        \/ Receive(h, {"left"}, {NumUsers}, {1})
        \/ FindInviter(h)
        \/ CreateReferral(h)
        \/ SaveInviter(h)
        \/ NotifyInviter(h)
        \/ FindRewards(h)
        \/ SendReward(h)
        \/ SaveClaimed(h)

SpecDup == InitDup /\ [][DupNext]_vars

\* /start and /link commands of one inviter arrive one after the other: a
\* command arrives when no handler of the same inviter is in flight.
LinkNextSeq ==
    \E h \in LinkHandlers :
        \/ \E u \in UserIds, name \in Usernames :
              /\ \A g \in LinkHandlers : links[g].userId # u
              /\ LinkCommand(h, u, name)
        \/ EnsureUserFind(h)
        \/ EnsureUserCreate(h)
        \/ EnsureUserSave(h)
        \/ CreateChatInviteLink(h)
        \/ SaveLink(h)

SpecLinkSeq == InitEmpty /\ [][LinkNextSeq]_vars

\* One /start or /link command, of any identity, interleaved with the join
\* events: its ensureUser and handle saves write profiles the join handlers
\* hold copies of.
LinkNextOnce ==
    \E h \in {"l1"} :
        \/ \E u \in UserIds, name \in Usernames :
              nCalls = 0 /\ LinkCommand(h, u, name)
        \/ EnsureUserFind(h)
        \/ EnsureUserCreate(h)
        \/ EnsureUserSave(h)
        \/ CreateChatInviteLink(h)
        \/ SaveLink(h)

SpecSaves == Init /\ [][JoinNext \/ LinkNextOnce]_vars

\* sendDueRewards as a function of its inputs: the inviter document passed to
\* it (credit count, claimed tiers) and the stored catalog.
DispatchCredits == {1, 4, 5, 10, 12}
DispatchThresholds == {1, 5, 10}
DispatchClaimed == {<<>>, <<"1">>, <<"2">>, <<"1", "2">>, <<"2", "1">>}
DispatchCatalogs ==
    {<<>>}
    \cup {<<Tier(a, x)>> : a \in TierIds, x \in DispatchThresholds}
    \cup {c \in {<<Tier(a, x), Tier(b, y)>> :
                    a \in TierIds, b \in TierIds,
                    x \in DispatchThresholds, y \in DispatchThresholds} :
            c[1].rewardId # c[2].rewardId}

\* Inviter 1 has been credited with `credit` joiners (identities outside
\* UserIds), holds `claimed` (rewards of the catalog, each delivered once
\* by an earlier pass), has been notified of every join, and handler j1,
\* on the event of the latest joiner coming into the channel, enters
\* sendDueRewards with the profile just saved.
InitDispatch ==
    \E credit \in DispatchCredits, catalog \in DispatchCatalogs :
    \E claimed \in {c \in DispatchClaimed :
                       \A t \in Range(c) :
                           \E i \in 1..Len(catalog) : catalog[i].rewardId = t} :
        LET inviter == [Profile(1) EXCEPT
                            !.invitedUsers = [i \in 1..credit |-> 100 + i],
                            !.invitesCount = credit,
                            !.rewardsClaimed = claimed]
        IN /\ channel \in {c \in Channels : ~c.byName}
           /\ users = [u \in {1} |-> inviter]
           /\ rewards = catalog
           /\ referrals = [i \in 1..credit |->
                              [joinedUserId |-> 100 + i, inviterUserId |-> 1]]
           /\ issued = <<1>>
           /\ returned = [u \in UserIds |-> IF u = 1 THEN <<1>> ELSE <<>>]
           /\ notified = [u \in UserIds |-> IF u = 1 THEN credit ELSE 0]
           /\ delivered = [u \in UserIds |->
                              [t \in TierIds |->
                                  IF u = 1 /\ t \in Range(claimed)
                                  THEN 1 ELSE 0]]
           /\ everFailed = [u \in UserIds |-> {}]
           /\ lastOutcome = "none"
           /\ nJoins = MaxJoins
           /\ nCalls = 0
           /\ joins = [h \in JoinHandlers |->
                          IF h = "j1"
                          THEN [IdleJoin EXCEPT !.pc = "findRewards",
                                                !.chat = [id |-> 100,
                                                          username |-> "wallswipe"],
                                                !.oldStatus = "left",
                                                !.joined = 100 + credit,
                                                !.link = 1, !.inviter = inviter]
                          ELSE IdleJoin]
           /\ links = [h \in LinkHandlers |-> IdleLink]
           /\ NoCommands

DispatchNext ==
    \E h \in JoinHandlers :
        \/ FindRewards(h)
        \/ SendReward(h)
        \/ SaveClaimed(h)

SpecDispatch == InitDispatch /\ [][DispatchNext]_vars

\* The uploads: a ZIP by its declared type, a ZIP by its name, a picture, a
\* document that declares neither type nor name.
Documents ==
    {[mime_type |-> "application/zip", file_name |-> "", file_id |-> "f1"],
     [mime_type |-> "", file_name |-> "PACK.ZIP", file_id |-> "f2"],
     [mime_type |-> "image/png", file_name |-> "cat.png", file_id |-> "f3"],
     [mime_type |-> "", file_name |-> "", file_id |-> "f4"]}

\* /reward with no argument, with an id, with an id and a threshold.
RewardIds == {"1", "0", "-1", "gold"}
RewardThresholds == {"0", "3", "soon"}
RewardTexts ==
    {<<"/reward">>}
    \cup {<<"/reward", id>> : id \in RewardIds}
    \cup {<<"/reward", id, t>> : id \in RewardIds, t \in RewardThresholds}

\* The steps of the admin handlers that follow an await.
AdminSteps(h) ==
    \/ CountUsers(h)
    \/ CountReferrals(h)
    \/ CountActive(h)
    \/ FindOne(h)
    \/ FindUsers(h)
    \/ SendMessage(h)
    \/ ListRewards(h)
    \/ UpsertReward(h)

\* Every admin command and upload, from the admin and from others.  All but
\* the upload only read the database and reply, so one runs at a time here;
\* the overlap of the handlers that write is in SpecUpload.
AdminNext ==
    \E h \in {"a1"} :
        \/ \E from \in Senders : StatsCommand(h, from)
        \/ \E from \in Senders : UserCommand(h, from, UserArgs)
        \/ \E from \in Senders : BroadcastCommand(h, from, {"", "hi"})
        \/ \E from \in Senders : RewardsListCommand(h, from)
        \/ \E from \in Senders :
              RewardCommand(h, from, {<<"/reward">>, <<"/reward", "1">>,
                                      <<"/reward", "2", "3">>})
        \/ \E from \in Senders : DocumentUpload(h, from, Documents)
        \/ AdminSteps(h)

SpecAdmin == Init /\ [][AdminNext]_vars

\* The upload session alone: /reward commands and uploads.
UploadNext ==
    \E h \in AdminHandlers :
        \/ \E from \in Senders : RewardCommand(h, from, RewardTexts)
        \/ \E from \in Senders : DocumentUpload(h, from, Documents)
        \/ UpsertReward(h)

SpecUpload == Init /\ [][UploadNext]_vars

\* /myinvites, /rewards, /top and /help, from the holder of a profile of any
\* credit count up to MaxCredit (the joiners are identities outside UserIds;
\* reward 1, at one invite, has been claimed from the first credit on) and
\* from a newcomer, under any step up to MaxStep.
InitProgress ==
    \E credit \in 0..MaxCredit, step \in 1..MaxStep :
        /\ channel \in {c \in Channels : ~c.byName}
        /\ users = [u \in {1} |->
                       [Profile(1) EXCEPT
                           !.invitedUsers = [i \in 1..credit |-> 100 + i],
                           !.invitesCount = credit,
                           !.rewardsClaimed =
                               IF credit >= 1 THEN <<"1">> ELSE <<>>]]
        /\ rewards = <<Tier("1", 1)>>
        /\ referrals = [i \in 1..credit |->
                           [joinedUserId |-> 100 + i, inviterUserId |-> 1]]
        /\ issued = <<1>>
        /\ returned = [u \in UserIds |-> IF u = 1 THEN <<1>> ELSE <<>>]
        /\ notified = [u \in UserIds |-> IF u = 1 THEN credit ELSE 0]
        /\ delivered = [u \in UserIds |->
                           [t \in TierIds |->
                               IF u = 1 /\ t = "1" /\ credit >= 1
                               THEN 1 ELSE 0]]
        /\ everFailed = [u \in UserIds |-> {}]
        /\ lastOutcome = "none"
        /\ nJoins = 0
        /\ nCalls = 0
        /\ joins = [h \in JoinHandlers |-> IdleJoin]
        /\ links = [h \in LinkHandlers |-> IdleLink]
        /\ invitesPerReward = step
        /\ pendingRewardUploads = <<>>
        /\ admins = [h \in AdminHandlers |-> IdleAdmin]
        /\ replies = <<>>

ProgressNext ==
    \E h \in {"l1"} :
        \/ \E u \in 1..2, name \in Usernames : MyInvitesCommand(h, u, name)
        \/ \E u \in 1..2, name \in Usernames : RewardsCommand(h, u, name)
        \/ \E u \in 1..2 : TopCommand(h, u)
        \/ \E u \in 1..2 : HelpCommand(u)
        \/ EnsureUserFind(h)
        \/ EnsureUserCreate(h)
        \/ EnsureUserSave(h)
        \/ FindTop(h)

SpecProgress == InitProgress /\ [][ProgressNext]_vars

\* Join events of identity NumUsers through inviter 1's handle, from any chat
\* and with any pair of statuses, under either form of the configuration.
InitEvents ==
    \E cfg \in Channels :
        /\ channel = cfg
        /\ users = [u \in 1..2 |-> Profile(u)]
        /\ rewards = Catalog
        /\ referrals = <<>>
        /\ issued = <<1, 2>>
        /\ returned = [u \in UserIds |-> IF u \in 1..2 THEN <<u>> ELSE <<>>]
        /\ NoHistory

EventsNext ==
    \E h \in JoinHandlers :
        \/ Receive(h, Statuses, {NumUsers}, {1})
        \/ FindInviter(h)
        \/ CreateReferral(h)
        \/ SaveInviter(h)
        \/ NotifyInviter(h)
        \/ FindRewards(h)
        \/ SendReward(h)
        \/ SaveClaimed(h)

SpecEvents == InitEvents /\ [][EventsNext]_vars

\* The join event of identity NumUsers through inviter 1's handle delivered
\* again after the handler of the previous delivery has ended.
RetryNext ==
    \E h \in JoinHandlers :
        \/ /\ \A g \in JoinHandlers : joins[g].pc = "idle"
           /\ Receive(h, {"left"}, {NumUsers}, {1})
        \/ FindInviter(h)
        \/ CreateReferral(h)
        \/ SaveInviter(h)
        \/ NotifyInviter(h)
        \/ FindRewards(h)
        \/ SendReward(h)
        \/ SaveClaimed(h)

SpecRetry == InitDup /\ [][RetryNext]_vars

\* ------------------------------------------------------------------ claims
InFlight == {h \in JoinHandlers : joins[h].pc # "idle"}

\* The records of the ledger that name a joined identity.
RecordsOf(joined) == {i \in 1..Len(referrals) : referrals[i].joinedUserId = joined}

\* C1: over any sequence and interleaving of join-event handlers, at most one
\* ReferralRecord is ever committed for a joined identity.
C1_OneRecordPerJoined ==
    \A joined \in UserIds : Cardinality(RecordsOf(joined)) <= 1

\* C1 witness: the insert crediting inviter 1 with a joined identity is
\* committed, its handler still in flight, while a second handler, for an event
\* of the same identity that names inviter 2's handle, awaits its own insert;
\* the ledger holds the one record.
C1_Witness ==
    \E h \in JoinHandlers, g \in JoinHandlers :
        /\ joins[h].pc = "saveInviter"
        /\ joins[h].inviter.userId = 1
        /\ joins[g].pc = "createReferral"
        /\ joins[g].inviter.userId = 2
        /\ joins[g].joined = joins[h].joined
        /\ Cardinality(RecordsOf(joins[h].joined)) = 1

\* C3 as claimed: in every reachable state each profile's stored credit count
\* equals the size of its stored credited-joiner set.
C3_CountEqualsSetSize ==
    \A u \in DOMAIN users :
        users[u].invitesCount = Cardinality(Range(users[u].invitedUsers))

\* C4: no step removes a member from a profile's stored claimed-tier set.
C4_ClaimedNeverShrinks ==
    [][\A u \in DOMAIN users :
          /\ u \in DOMAIN users'
          /\ Range(users[u].rewardsClaimed) \subseteq Range(users'[u].rewardsClaimed)]_vars

\* C4 witness: a handler that loaded the profile before any tier was claimed
\* has saved it (it is past inviter.save()) and the stored profile holds the
\* tier another handler claimed.
C4_Witness ==
    \E h \in JoinHandlers :
        /\ joins[h].pc = "notify"
        /\ joins[h].inviter.rewardsClaimed = <<>>
        /\ users[joins[h].inviter.userId].rewardsClaimed # <<>>
        /\ Len(users[joins[h].inviter.userId].invitedUsers) = 2

\* C5 as claimed: every tier's payload is delivered to an inviter at most
\* once.
C5_AtMostOneDispatchPerTier ==
    \A u \in UserIds, t \in TierIds : delivered[u][t] <= 1

\* C10: an event without an invitation handle ends at once: no handler goes on
\* with it, and the step that received it changes neither the database nor
\* anything sent.
C10_NoHandleNoChange ==
    /\ [](\A h \in InFlight : joins[h].link # NoLink)
    /\ [][lastOutcome' = "noLink" =>
            UNCHANGED <<database, outbox, joins, links>>]_vars

\* C10 witness: an event without a handle has just been received, after an
\* attribution was committed.
C10_Witness ==
    /\ lastOutcome = "noLink"
    /\ Len(referrals) = 1
    /\ users[1].invitesCount = 1

\* How often x occurs in a sequence.
Occurrences(seq, x) == Cardinality({i \in 1..Len(seq) : seq[i] = x})

\* The ledger records of identities other than NumUsers: inviter 1's credits
\* from before the duplicated event.
CreditsBefore ==
    Cardinality({i \in 1..Len(referrals) : referrals[i].joinedUserId # NumUsers})

\* C2: the same join event (identity NumUsers through inviter 1's handle)
\* delivered repeatedly, in sequence or interleaved: the joined identity is
\* recorded once and credited once, the stored credit count is the count
\* before plus the one credit, and a delivery that finds the identity recorded
\* ends without changing the database or sending anything.
C2_DuplicateDeliveryIsNoOp ==
    /\ [](/\ Cardinality(RecordsOf(NumUsers)) <= 1
          /\ Occurrences(users[1].invitedUsers, NumUsers) <= 1
          /\ users[1].invitesCount
               = CreditsBefore + Occurrences(users[1].invitedUsers, NumUsers)
          /\ (/\ RecordsOf(NumUsers) # {}
              /\ \A h \in InFlight :
                   joins[h].pc \notin {"createReferral", "saveInviter"})
             => Occurrences(users[1].invitedUsers, NumUsers) = 1)
    /\ [][\A h \in JoinHandlers :
            (/\ joins[h].pc = "createReferral"
             /\ joins'[h] # joins[h]
             /\ RecordsOf(joins[h].joined) # {})
            => (joins'[h] = IdleJoin /\ UNCHANGED <<database, outbox>>)]_vars

\* C2 witness: both deliveries were accepted, the second has just been refused
\* as a duplicate while the first is still running, and inviter 1's stored
\* count has grown by the one credit.
C2_Witness ==
    /\ lastOutcome = "duplicate"
    /\ nJoins = 2
    /\ InFlight # {}
    /\ Occurrences(users[1].invitedUsers, NumUsers) = 1
    /\ users[1].invitesCount = 2

\* The createChatInviteLink requests made for an inviter.
RequestsFor(u) == {i \in 1..Len(issued) : issued[i] = u}

\* All the handles returned to an inviter's callers are one handle.
SameHandleReturned(u) ==
    \A i \in 1..Len(returned[u]), j \in 1..Len(returned[u]) :
        returned[u][i] = returned[u][j]

\* C6 as claimed: overlapping first-time getOrCreate calls of an inviter make
\* at most one handle-issuance request and every caller gets the same handle,
\* the stored one.
C6_OneHandleUnderConcurrency ==
    \A u \in UserIds :
        /\ Cardinality(RequestsFor(u)) <= 1
        /\ SameHandleReturned(u)
        /\ (returned[u] # <<>> => users[u].inviteLink = returned[u][1])

\* C7: when an inviter's calls do not overlap, once a call has returned a
\* handle every later call returns that handle, requests no new one (no
\* handler of the inviter is at createChatInviteLink or after it) and the
\* stored handle stays the returned one.
C7_SequentialIdempotent ==
    \A u \in UserIds :
        returned[u] # <<>> =>
            /\ SameHandleReturned(u)
            /\ users[u].inviteLink = returned[u][1]
            /\ Cardinality(RequestsFor(u)) = 1
            /\ \A h \in LinkHandlers :
                 links[h].userId = u =>
                    links[h].pc \notin {"createInviteLink", "saveLink"}

\* C7 witness: an inviter has been returned a handle by three calls.
C7_Witness ==
    \E u \in UserIds : Len(returned[u]) = 3

\* The reward ids of a list of rewards.
Ids(list) == {list[i].rewardId : i \in 1..Len(list)}

\* C8: a failed delivery does not end the pass (at its end every due tier was
\* attempted, each either delivered or failed), the closing save adds exactly
\* the delivered tiers to the stored claimed set, a failed delivery leaves the
\* document's claimed tiers as they were and a successful one adds its tier,
\* and a later dispatch whose document still lacks a tier that failed before
\* (and whose credit count reaches its threshold) attempts that tier again.
C8_FailureIsolatedAndRetried ==
    [][\A h \in JoinHandlers :
         LET me == joins[h]
             u == me.inviter.userId
         IN /\ (me.pc = "saveClaimed" /\ joins'[h] # me) =>
                  /\ me.sent \cup me.failed = Ids(me.toSend)
                  /\ me.sent \cap me.failed = {}
                  /\ Range(users'[u].rewardsClaimed)
                       = Range(users[u].rewardsClaimed) \cup me.sent
            /\ (me.pc = "sendReward" /\ joins'[h] # me) =>
                  LET t == me.toSend[me.idx].rewardId
                  IN IF delivered' # delivered
                     THEN Range(joins'[h].inviter.rewardsClaimed)
                            = Range(me.inviter.rewardsClaimed) \cup {t}
                     ELSE /\ joins'[h].inviter.rewardsClaimed = me.inviter.rewardsClaimed
                          /\ t \in everFailed'[u]
            /\ (me.pc = "findRewards" /\ joins'[h] # me) =>
                  \A i \in 1..Len(rewards) :
                     (/\ rewards[i].rewardId \in everFailed[u]
                      /\ rewards[i].rewardId \notin Range(me.inviter.rewardsClaimed)
                      /\ rewards[i].threshold <= me.inviter.invitesCount)
                     => (/\ joins'[h].pc = "sendReward"
                         /\ rewards[i].rewardId \in Ids(joins'[h].toSend))]_vars

\* C8 witness: tier 1 failed in an earlier pass of inviter 1 and stayed
\* unclaimed; the pass of the next join event delivered it once, with tier 2,
\* and both are stored as claimed.
C8_Witness ==
    /\ InFlight = {}
    /\ "1" \in everFailed[1]
    /\ delivered[1]["1"] = 1
    /\ Range(users[1].rewardsClaimed) = {"1", "2"}

\* The tiers due by the specification: threshold <= credit count and id not
\* claimed.
DueIds(catalog, credit, claimed) ==
    {catalog[i].rewardId :
        i \in {k \in 1..Len(catalog) :
                 catalog[k].threshold <= credit /\ catalog[k].rewardId \notin claimed}}

\* C9: a dispatch pass in which every delivery succeeds delivers exactly the
\* due tiers (each once, on top of the one delivery of each tier claimed
\* before; no other tier) and ends with the stored claimed set = the
\* previous claimed set united with the delivered tiers; a pass that finds
\* nothing to send had no due tier.
C9_DispatchDeliversExactlyDue ==
    /\ [](\A h \in InFlight :
            LET stored == users[joins[h].inviter.userId]
                due == DueIds(rewards, joins[h].inviter.invitesCount,
                              Range(stored.rewardsClaimed))
            IN (joins[h].pc = "saveClaimed" /\ joins[h].failed = {}) =>
                  /\ joins[h].sent = due
                  /\ \A t \in TierIds :
                       delivered[stored.userId][t]
                         = (IF t \in Range(stored.rewardsClaimed) THEN 1 ELSE 0)
                           + (IF t \in due THEN 1 ELSE 0))
    /\ [][\A h \in JoinHandlers :
            LET me == joins[h]
                u == me.inviter.userId
                due == DueIds(rewards, me.inviter.invitesCount,
                              Range(users[u].rewardsClaimed))
            IN /\ (me.pc = "findRewards" /\ joins'[h].pc = "idle") => due = {}
               /\ (me.pc = "saveClaimed" /\ me.failed = {} /\ joins'[h] # me) =>
                     Range(users'[u].rewardsClaimed)
                       = Range(users[u].rewardsClaimed) \cup due]_vars

\* C9 witness: credit 12, nothing claimed, tiers 1 at 5 and 2 at 10: the pass
\* has delivered both once and is about to store claimed {1, 2}.
C9_Witness ==
    /\ joins["j1"].pc = "saveClaimed"
    /\ joins["j1"].failed = {}
    /\ joins["j1"].sent = {"1", "2"}
    /\ rewards = <<Tier("1", 5), Tier("2", 10)>>
    /\ users[1].invitesCount = 12
    /\ users[1].rewardsClaimed = <<>>
    /\ joins["j1"].inviter.rewardsClaimed = <<"1", "2">>
    /\ delivered[1] = [t \in TierIds |-> 1]

\* The admin handlers that are running.
AdminInFlight == {h \in AdminHandlers : admins[h].pc # "idle"}

\* C11: an admin-only action (stats, user, broadcast, rewardslist, reward,
\* payload upload) invoked by anyone but the configured admin ends at once: the
\* step changes neither the upload sessions, the catalog, the profiles nor
\* anything sent; no handler goes on with it, no session is ever held by
\* another identity, and no reply ever goes to one.
C11_NonAdminIsIgnored ==
    /\ [](/\ \A h \in AdminInFlight : admins[h].from = AdminId
          /\ DOMAIN pendingRewardUploads \subseteq {AdminId}
          /\ \A i \in 1..Len(replies) :
               replies[i].text # "broadcast" => replies[i].to = AdminId)
    /\ [][lastOutcome' = "notAdmin" =>
            UNCHANGED <<pendingRewardUploads, database, outbox, admins>>]_vars

\* C11 witness: a non-admin has just been ignored while the admin's upload
\* session is open and awaits its ZIP.
C11_Witness ==
    /\ lastOutcome = "notAdmin"
    /\ AdminId \in DOMAIN pendingRewardUploads
    /\ Len(replies) = 1
    /\ replies[1].text = "sendZip"

\* The (rewardId, threshold) of the latest /reward command that opened a
\* session: the data of the latest "send the ZIP" reply.
BeginReplies == {i \in 1..Len(replies) : replies[i].text = "sendZip"}
LastBegin ==
    replies[CHOOSE i \in BeginReplies : \A j \in BeginReplies : j <= i].data

\* The catalog holds one reward of the id, with the threshold and the file.
Registered(catalog, pending, fileId) ==
    /\ Cardinality({i \in 1..Len(catalog) :
                      catalog[i].rewardId = pending.rewardId}) = 1
    /\ \E i \in 1..Len(catalog) :
         /\ catalog[i].rewardId = pending.rewardId
         /\ catalog[i].threshold = pending.threshold
         /\ catalog[i].fileId = fileId

\* The rewards of a catalog that have another id.
Others(catalog, rewardId) ==
    SelectSeq(catalog, LAMBDA r : r.rewardId # rewardId)

\* C12 as claimed: the upload session over any sequence of the admin's /reward
\* commands and uploads.  While a session is open it holds the
\* (rewardId, threshold) of the latest /reward.  An upload with no session open changes nothing.  An
\* upload that is no ZIP leaves session and catalog as they are.  A ZIP is
\* taken with the session's (rewardId, threshold); when its registration ends
\* the catalog holds exactly one reward of that id, with that threshold and the
\* uploaded file, the other rewards are as before, and the session it was
\* uploaded in is closed.  A /reward sets the session to its own
\* (rewardId, threshold), whether one was open or not.
C12_UploadSessionStateMachine ==
    /\ [](AdminId \in DOMAIN pendingRewardUploads =>
             BeginReplies # {} /\ pendingRewardUploads[AdminId] = LastBegin)
    /\ [][/\ lastOutcome' = "noPending" =>
               /\ AdminId \notin DOMAIN pendingRewardUploads
               /\ UNCHANGED <<pendingRewardUploads, database, outbox, admins>>
          /\ lastOutcome' = "notZip" =>
               /\ AdminId \in DOMAIN pendingRewardUploads
               /\ UNCHANGED <<pendingRewardUploads, database, admins>>
          /\ Len(replies') > Len(replies) /\ replies'[Len(replies')].text = "sendZip" =>
               /\ AdminId \in DOMAIN pendingRewardUploads'
               /\ pendingRewardUploads'[AdminId] = replies'[Len(replies')].data
               /\ UNCHANGED database
          /\ \A h \in AdminHandlers :
               /\ (admins[h].pc = "idle" /\ admins'[h].pc = "upsert") =>
                    /\ AdminId \in DOMAIN pendingRewardUploads
                    /\ admins'[h].pending = LastBegin
                    /\ UNCHANGED <<pendingRewardUploads, database>>
               /\ (admins[h].pc = "upsert" /\ admins'[h].pc = "idle") =>
                    /\ pendingRewardUploads = MapSet(<<>>, AdminId, admins[h].pending)
                    /\ Registered(rewards', admins[h].pending, admins[h].fileId)
                    /\ Others(rewards', admins[h].pending.rewardId)
                         = Others(rewards, admins[h].pending.rewardId)
                    /\ AdminId \notin DOMAIN pendingRewardUploads'
                    /\ UNCHANGED <<users, referrals>>]_vars

\* The progress replies sent so far.
ProgressReplies == {i \in 1..Len(replies) : replies[i].text = "myinvites"}

\* C13: every progress line reports as next the smallest multiple of the step
\* strictly greater than the credit count, as remaining the step minus the
\* count modulo the step, and next - count = remaining; (7, 5) gives 10 and 3,
\* (10, 5) gives 15 and 5.
C13_ProgressNextAndRemaining ==
    \A i \in ProgressReplies :
        LET invites == replies[i].data.invites
            next == replies[i].data.next
            left == replies[i].data.left
            step == invitesPerReward
        IN /\ invites >= 0 /\ step >= 1
           /\ next % step = 0
           /\ next > invites
           /\ next - step <= invites
           /\ left = step - (invites % step)
           /\ next - invites = left
           /\ (invites = 7 /\ step = 5) => (next = 10 /\ left = 3)
           /\ (invites = 10 /\ step = 5) => (next = 15 /\ left = 5)

\* C13 witness: the exact-multiple boundary, 10 credits at step 5, was
\* reported as next 15, remaining 5.
C13_Witness ==
    /\ invitesPerReward = 5
    /\ \E i \in ProgressReplies :
         replies[i].data = [invites |-> 10, next |-> 15, left |-> 5]

\* The event's chat is the configured channel: by its public name when the
\* channel is configured by name, by its numeric id otherwise.
SameChannel(cfg, chat) ==
    IF cfg.byName THEN chat.username = cfg.name ELSE chat.id = cfg.id

\* The handlers that have committed the record of their event.
Committed == {h \in JoinHandlers :
                joins[h].pc \in {"saveInviter", "notify", "findRewards",
                                 "sendReward", "saveClaimed"}}

\* C14 as claimed: under either form of the configuration, an event from a
\* chat that is not the configured channel is discarded: no handler goes on
\* with it and none commits a record for it.
C14_OtherChannelIsDiscarded ==
    \A h \in InFlight : SameChannel(channel, joins[h].chat)

\* C15 as claimed: a notification that fails leaves the committed record and
\* the credited profile as they are and the dispatch of the join event is
\* still performed: the handler goes on to sendDueRewards.
C15_NotifyFailureStaysInside ==
    [][\A h \in JoinHandlers :
         (joins[h].pc = "notify" /\ joins'[h] # joins[h]) =>
            /\ UNCHANGED <<users, referrals>>
            /\ joins'[h].pc = "findRewards"]_vars

\* The ledger records that name an inviter.
RecordsNaming(u) == {i \in 1..Len(referrals) : referrals[i].inviterUserId = u}

\* C16 as claimed: when every join handler has ended, each inviter's stored
\* credit count is the number of records that name the inviter, and the joined
\* identity of each such record is in the inviter's credited-joiner set.
C16_CountEqualsRecordsAtRest ==
    InFlight = {} =>
        \A u \in DOMAIN users :
            /\ users[u].invitesCount = Cardinality(RecordsNaming(u))
            /\ \A i \in RecordsNaming(u) :
                 Includes(users[u].invitedUsers, referrals[i].joinedUserId)

\* C17 as claimed: a record is committed, and a profile credited, only for an
\* event whose previous status is one of an identity outside the channel (and
\* whose new status is member).
C17_OnlyFromOutsideToMember ==
    \A h \in Committed : joins[h].oldStatus \in Outside

\* C18: a failed insert ends the handler with nothing else changed (no
\* profile, no notification, no dispatch, no record); no handler is ever past
\* the insert without the record of its event; and when the event is delivered
\* again and the insert succeeds, the record of the joined identity and the
\* inviter is appended and the save that follows credits the inviter with the
\* joined identity, once, the stored count growing by one.
C18_InsertFailureAbortsAndRetryCredits ==
    /\ [](\A h \in Committed :
            \E i \in RecordsOf(joins[h].joined) :
               referrals[i].inviterUserId = joins[h].inviter.userId)
    /\ [][\A h \in JoinHandlers :
            LET me == joins[h]
            IN /\ (lastOutcome' = "insertFailed" /\ joins'[h] # me) =>
                    /\ joins'[h] = IdleJoin
                    /\ UNCHANGED <<database, outbox>>
               /\ (me.pc = "createReferral" /\ joins'[h].pc = "saveInviter") =>
                    /\ referrals' = Append(referrals,
                          [joinedUserId |-> me.joined,
                           inviterUserId |-> me.inviter.userId])
                    /\ UNCHANGED users
               /\ (me.pc = "saveInviter" /\ joins'[h] # me) =>
                    /\ Occurrences(users'[1].invitedUsers, me.joined) = 1
                    /\ users'[1].invitesCount = users[1].invitesCount + 1
                    /\ users'[1].invitesCount = CreditsBefore + 1]_vars

\* C18 witness: the second delivery, which arrived after the first had ended,
\* has committed the record and credited inviter 1; the first delivery ended
\* at its failed insert (had it committed, the second would have been refused
\* as a duplicate).
C18_Witness ==
    /\ nJoins = 2
    /\ \E h \in JoinHandlers : joins[h].pc = "notify" /\ joins[h].joined = NumUsers
    /\ Cardinality(RecordsOf(NumUsers)) = 1
    /\ Includes(users[1].invitedUsers, NumUsers)
    /\ users[1].invitesCount = CreditsBefore + 1

\* C20: an event whose handle belongs to the joined identity ends at the
\* guard with nothing changed; no record names the same identity as inviter
\* and joined, and no profile's credited joiners hold its own identity.
C20_NoSelfInvite ==
    /\ [](/\ \A i \in 1..Len(referrals) :
               referrals[i].inviterUserId # referrals[i].joinedUserId
          /\ \A u \in DOMAIN users : ~Includes(users[u].invitedUsers, u)
          /\ \A h \in InFlight :
               joins[h].inviter # NoDoc => joins[h].inviter.userId # joins[h].joined)
    /\ [][lastOutcome' = "selfInvite" =>
            /\ UNCHANGED <<database, outbox>>
            /\ \A h \in JoinHandlers : joins'[h] \in {joins[h], IdleJoin}]_vars

\* C20 witness: identity 2 has just been dropped at the guard for joining
\* through its own handle, after it was credited with a joiner of its own.
C20_Witness ==
    /\ lastOutcome = "selfInvite"
    /\ users[2].invitesCount = 1
    /\ \A h \in JoinHandlers : joins[h].pc = "idle"

\* C19 as claimed: every reward of the catalog has a threshold of at least 1.
C19_ThresholdAtLeastOne ==
    \A i \in 1..Len(rewards) : rewards[i].threshold >= 1

====
